---- MODULE Spec2Model ----
(***************************************************************************)
(* Model of backend/app/main.py: the startup readiness gate (on_startup),  *)
(* the two HTTP handlers (read_root, health_check) and the store they      *)
(* talk to, with the schema registry declared in backend/app/models.py.    *)
(***************************************************************************)
EXTENDS Integers, Sequences, FiniteSets, TLC

\* ---------------------------------------------------------------- constants
max_retries == 30
SleepSeconds == 2

\* bounds of the exploration (environment events, not program constants)
MaxStoreChanges == 2
MaxRestarts == 1
MaxRequests == 2
MaxRows == 2

\* values the inserted rows are drawn from
Usernames == {"alice", "bob"}
KbNames == {"docs", "faq"}
KbIds == {"kb-1", "kb-2"}

\* the tables declared in models.py
DeclaredTables == {"users", "knowledge_bases"}

\* how the store answers a statement at a given moment
StoreStates == {"reachable", "unreachable", "rejecting"}

VARIABLES
    pc,          \* position of the process: load, loop, connected, after, serving, crashed
    retries,     \* on_startup's local counter
    log,         \* lines emitted through logger, in order
    store,       \* current condition of the store
    tables,      \* number of copies of each table in the store
    metadata,    \* tables registered on Base.metadata
    resp,        \* response of the last handled request
    served,      \* requests handled by this process
    probes,      \* probe attempts made by this process (connection.execute calls)
    provisions,  \* create_all calls made by this process
    sleeps,      \* time.sleep calls made by this process
    slept,       \* total time suspended by this process
    firstOk,     \* attempt number of the first successful probe, 0 if none
    provFailure, \* class of the first create_all failure of this process, "none" if none
    startups,    \* on_startup invocations of this process
    raised,      \* class of the exception that left on_startup, "none" if none
    created,     \* create_all runs that completed against this store
    users,       \* rows of the users table, in insertion order
    knowledge_bases, \* rows of the knowledge_bases table, in insertion order
    lastInsert,  \* the last insert attempted and what the store answered
    checkedOut,  \* connections checked out of the engine's pool
    sessions,    \* health_check requests in flight, by request number
    changes,     \* store changes so far
    restarts     \* process restarts so far

vars == <<pc, retries, log, store, tables, metadata, resp, served, probes,
          provisions, sleeps, slept, firstOk, provFailure, startups, raised, created,
          users, knowledge_bases, lastInsert, checkedOut, sessions, changes, restarts>>

\* the rows of the store and the last insert
rowVars == <<users, knowledge_bases, lastInsert>>

\* ------------------------------------------------------------------ helpers
\* text("SELECT 1") / DDL against the store: the result or the exception class
Execute(s) ==
    CASE s = "reachable" -> "ok"
      [] s = "unreachable" -> "OperationalError"
      [] OTHER -> "ProgrammingError"

\* Python's except clause: does a handler for class c catch exception e
IsInstance(e, c) == e # "ok" /\ (c = "Exception" \/ e = c)

StartupExceptMut == "Exception"
\* the class on_startup's except clause names
StartupExcept == "OperationalError"

HealthExceptMut == "OperationalError"
\* the class health_check's except clause names
HealthExcept == "Exception"

CreateAllDeclared(md, tbls) ==
    [t \in DeclaredTables |-> IF tbls[t] = 0 THEN 1 ELSE tbls[t]]

CreateAllNoCheck(md, tbls) ==
    [t \in DeclaredTables |-> IF t \in md THEN tbls[t] + 1 ELSE tbls[t]]
\* Base.metadata.create_all(bind=engine): create each registered table that is absent
CreateAll(md, tbls) ==
    [t \in DeclaredTables |-> IF t \in md /\ tbls[t] = 0 THEN 1 ELSE tbls[t]]

ExhaustedEarly(r) == r >= max_retries - 1
\* the test after the loop, line 88
Exhausted(r) == r >= max_retries

LoopContinuesMut(r) == r <= max_retries
\* the while condition of on_startup
LoopContinues(r) == r < max_retries

Line(level, event, n) == <<level, event, n>>

WelcomePayloadStale ==
    <<<<"message", "Welcome to the Knowledge Base API!">>, <<"status", "ok">>>>
\* the literal read_root returns
WelcomePayload ==
    <<<<"message", "Welcome to the Knowledge Base API!">>, <<"status", "running">>>>
HealthyPayload ==
    <<<<"status", "ok">>, <<"database_connection", "healthy">>>>
UnhealthyPayload ==
    <<<<"status", "error">>, <<"database_connection", "unhealthy">>>>

NoResponse == [route |-> "none", raised |-> FALSE, body |-> <<>>, queries |-> 0, answer |-> "none"]

\* module load: the schema registry is models.Base, or an empty placeholder
\* when the import fails
LoadLog(md) ==
    IF md = {} THEN <<Line("warning", "models_not_found", 0)>> ELSE <<>>

AcceptingEarly == pc \in {"loop", "connected", "after", "serving"}
\* the framework dispatches requests only after the startup handlers returned
Accepting == pc = "serving"

NoInsert == [table |-> "none", row |-> [id |-> 0], result |-> "none"]

\* a health_check request that has not arrived yet
IdleSession == [st |-> "idle", holds |-> FALSE, answer |-> "none"]

\* --------------------------------------------------------------------- Init
Init ==
    /\ pc = "load"
    /\ retries = 0
    /\ metadata \in {DeclaredTables, {}}
    /\ log = LoadLog(metadata)
    /\ store \in StoreStates
    /\ tables \in [DeclaredTables -> {0, 1}]
    /\ resp = NoResponse
    /\ served = 0
    /\ probes = 0
    /\ provisions = 0
    /\ sleeps = 0
    /\ slept = 0
    /\ firstOk = 0
    /\ provFailure = "none"
    /\ startups = 0
    /\ raised = "none"
    /\ created = 0
    /\ users = <<>>
    /\ knowledge_bases = <<>>
    /\ lastInsert = NoInsert
    /\ checkedOut = 0
    /\ sessions = [i \in 1..MaxRequests |-> IdleSession]
    /\ changes = 0
    /\ restarts = 0

\* ------------------------------------------------------------------ actions
\* on_startup, lines 55-58
Begin ==
    /\ pc = "load"
    /\ pc' = "loop"
    /\ retries' = 0
    /\ startups' = startups + 1
    /\ log' = Append(log, Line("info", "startup_begin", 0))
    /\ UNCHANGED <<store, tables, metadata, resp, served, probes, provisions,
                   sleeps, slept, firstOk, provFailure, raised, created, changes, restarts>>
    /\ UNCHANGED <<rowVars, checkedOut, sessions>>

FailedNoWarning(e) ==
    IF IsInstance(e, StartupExcept)
    THEN /\ retries' = retries + 1
         /\ sleeps' = sleeps + 1
         /\ slept' = slept + SleepSeconds
         /\ pc' = "loop"
         /\ UNCHANGED <<raised, log>>
    ELSE /\ pc' = "crashed"
         /\ raised' = e
         /\ UNCHANGED <<retries, log, sleeps, slept>>
FailedNoFinalSleep(e) ==
    IF IsInstance(e, StartupExcept)
    THEN /\ retries' = retries + 1
         /\ log' = Append(log, Line("warning", "retry", retries + 1))
         /\ sleeps' = IF retries + 1 < max_retries THEN sleeps + 1 ELSE sleeps
         /\ slept' = IF retries + 1 < max_retries THEN slept + SleepSeconds ELSE slept
         /\ pc' = "loop"
         /\ UNCHANGED raised
    ELSE /\ pc' = "crashed"
         /\ raised' = e
         /\ UNCHANGED <<retries, log, sleeps, slept>>
\* the except clause of the loop, lines 83-86, or propagation out of on_startup
Failed(e) ==
    IF IsInstance(e, StartupExcept)
    THEN /\ retries' = retries + 1
         /\ log' = Append(log, Line("warning", "retry", retries + 1))
         /\ sleeps' = sleeps + 1
         /\ slept' = slept + SleepSeconds
         /\ pc' = "loop"
         /\ UNCHANGED raised
    ELSE /\ pc' = "crashed"
         /\ raised' = e
         /\ UNCHANGED <<retries, log, sleeps, slept>>

\* one pass of the loop up to create_all, lines 61-76
Probe ==
    /\ pc = "loop"
    /\ LoopContinues(retries)
    /\ probes' = probes + 1
    /\ LET r == Execute(store) IN
         IF r = "ok"
         THEN /\ log' = log \o <<Line("info", "probe_ok", retries + 1),
                                 Line("info", "creating_tables", 0)>>
              /\ firstOk' = IF firstOk = 0 THEN probes + 1 ELSE firstOk
              /\ pc' = "connected"
              /\ UNCHANGED <<retries, sleeps, slept, raised>>
         ELSE /\ Failed(r)
              /\ UNCHANGED firstOk
    /\ UNCHANGED <<store, tables, metadata, resp, served, provisions,
                   provFailure, startups, created, changes, restarts>>
    /\ checkedOut' = IF Execute(store) = "ok" THEN checkedOut + 1 ELSE checkedOut
    /\ UNCHANGED <<rowVars, sessions>>

\* create_all and the break, lines 77-81
Provision ==
    /\ pc = "connected"
    /\ provisions' = provisions + 1
    /\ LET r == Execute(store) IN
         IF r = "ok"
         THEN /\ tables' = CreateAll(metadata, tables)
              /\ log' = Append(log, Line("info", "tables_created", 0))
              /\ created' = created + 1
              /\ pc' = "after"
              /\ UNCHANGED <<retries, sleeps, slept, provFailure, raised>>
         ELSE /\ Failed(r)
              /\ provFailure' = IF provFailure = "none" THEN r ELSE provFailure
              /\ UNCHANGED <<tables, created>>
    /\ UNCHANGED <<store, metadata, resp, served, probes, firstOk,
                   startups, changes, restarts>>
    /\ checkedOut' = checkedOut - 1
    /\ UNCHANGED <<rowVars, sessions>>

FinishSwapped ==
    /\ \/ pc = "after"
       \/ pc = "loop" /\ ~LoopContinues(retries)
    /\ log' = Append(log, Line("info", "startup_complete", 0)) \o
               (IF Exhausted(retries) THEN <<Line("error", "exhausted", 0)>> ELSE <<>>)
    /\ pc' = "serving"
    /\ UNCHANGED <<retries, store, tables, metadata, resp, served, probes, provisions,
                   sleeps, slept, firstOk, provFailure, startups, raised, created, changes, restarts>>
    /\ UNCHANGED <<rowVars, checkedOut, sessions>>

\* after the loop, lines 88-91
Finish ==
    /\ \/ pc = "after"
       \/ pc = "loop" /\ ~LoopContinues(retries)
    /\ log' = (IF Exhausted(retries)
               THEN Append(log, Line("error", "exhausted", 0))
               ELSE log) \o <<Line("info", "startup_complete", 0)>>
    /\ pc' = "serving"
    /\ UNCHANGED <<retries, store, tables, metadata, resp, served, probes, provisions,
                   sleeps, slept, firstOk, provFailure, startups, raised, created, changes, restarts>>
    /\ UNCHANGED <<rowVars, checkedOut, sessions>>

\* GET /, lines 95-100
ReadRoot ==
    /\ Accepting
    /\ served < MaxRequests
    /\ served' = served + 1
    /\ resp' = [route |-> "/", raised |-> FALSE, body |-> WelcomePayload,
                queries |-> 0, answer |-> "none"]
    /\ UNCHANGED <<pc, retries, log, store, tables, metadata, probes, provisions,
                   sleeps, slept, firstOk, provFailure, startups, raised, created, changes, restarts>>
    /\ UNCHANGED <<rowVars, checkedOut, sessions>>

HealthCheckRetries ==
    /\ Accepting
    /\ served < MaxRequests
    /\ served' = served + 1
    /\ LET r == Execute(store) IN
         IF r = "ok"
         THEN /\ resp' = [route |-> "/health", raised |-> FALSE, body |-> HealthyPayload,
                          queries |-> 1, answer |-> r]
              /\ UNCHANGED log
         ELSE IF IsInstance(r, HealthExcept)
         THEN /\ resp' = [route |-> "/health", raised |-> FALSE, body |-> UnhealthyPayload,
                          queries |-> 2, answer |-> r]
              /\ log' = Append(log, Line("error", "health_check_failed", 0))
         ELSE /\ resp' = [route |-> "/health", raised |-> TRUE, body |-> <<>>,
                          queries |-> 1, answer |-> r]
              /\ UNCHANGED log
    /\ UNCHANGED <<pc, retries, store, tables, metadata, probes, provisions,
                   sleeps, slept, firstOk, provFailure, startups, raised, created, changes, restarts>>
    /\ UNCHANGED <<rowVars, checkedOut, sessions>>

HealthCheckProvisions ==
    /\ Accepting
    /\ served < MaxRequests
    /\ served' = served + 1
    /\ LET r == Execute(store) IN
         IF r = "ok"
         THEN /\ resp' = [route |-> "/health", raised |-> FALSE, body |-> HealthyPayload,
                          queries |-> 1, answer |-> r]
              /\ tables' = CreateAll(metadata, tables)
              /\ UNCHANGED log
         ELSE IF IsInstance(r, HealthExcept)
         THEN /\ resp' = [route |-> "/health", raised |-> FALSE, body |-> UnhealthyPayload,
                          queries |-> 1, answer |-> r]
              /\ log' = Append(log, Line("error", "health_check_failed", 0))
              /\ UNCHANGED tables
         ELSE /\ resp' = [route |-> "/health", raised |-> TRUE, body |-> <<>>,
                          queries |-> 1, answer |-> r]
              /\ UNCHANGED <<log, tables>>
    /\ UNCHANGED <<pc, retries, store, metadata, probes, provisions,
                   sleeps, slept, firstOk, provFailure, startups, raised, created, changes, restarts>>
    /\ UNCHANGED <<rowVars, checkedOut, sessions>>

HealthCheckGated ==
    /\ Accepting
    /\ served < MaxRequests
    /\ served' = served + 1
    /\ LET r == IF retries >= max_retries THEN "OperationalError" ELSE Execute(store) IN
         IF r = "ok"
         THEN /\ resp' = [route |-> "/health", raised |-> FALSE, body |-> HealthyPayload,
                          queries |-> 1, answer |-> r]
              /\ UNCHANGED log
         ELSE /\ resp' = [route |-> "/health", raised |-> FALSE, body |-> UnhealthyPayload,
                          queries |-> 1, answer |-> r]
              /\ log' = Append(log, Line("error", "health_check_failed", 0))
    /\ UNCHANGED <<pc, retries, store, tables, metadata, probes, provisions,
                   sleeps, slept, firstOk, provFailure, startups, raised, created, changes, restarts>>
    /\ UNCHANGED <<rowVars, checkedOut, sessions>>

\* GET /health, lines 102-113
HealthCheck ==
    /\ Accepting
    /\ served < MaxRequests
    /\ served' = served + 1
    /\ LET r == Execute(store) IN
         IF r = "ok"
         THEN /\ resp' = [route |-> "/health", raised |-> FALSE, body |-> HealthyPayload,
                          queries |-> 1, answer |-> r]
              /\ UNCHANGED log
         ELSE IF IsInstance(r, HealthExcept)
         THEN /\ resp' = [route |-> "/health", raised |-> FALSE, body |-> UnhealthyPayload,
                          queries |-> 1, answer |-> r]
              /\ log' = Append(log, Line("error", "health_check_failed", 0))
         ELSE /\ resp' = [route |-> "/health", raised |-> TRUE, body |-> <<>>,
                          queries |-> 1, answer |-> r]
              /\ UNCHANGED log
    /\ UNCHANGED <<pc, retries, store, tables, metadata, probes, provisions,
                   sleeps, slept, firstOk, provFailure, startups, raised, created, changes, restarts>>
    /\ UNCHANGED <<rowVars, checkedOut, sessions>>

\* the environment: the store changes condition
StoreChange ==
    /\ changes < MaxStoreChanges
    /\ changes' = changes + 1
    /\ \E s \in StoreStates \ {store} : store' = s
    /\ UNCHANGED <<pc, retries, log, tables, metadata, resp, served, probes, provisions,
                   sleeps, slept, firstOk, provFailure, startups, raised, created, restarts>>
    /\ UNCHANGED <<rowVars, checkedOut, sessions>>

\* the operator restarts the process: the module is loaded again, the store persists
Restart ==
    /\ pc \in {"serving", "crashed"}
    /\ restarts < MaxRestarts
    /\ restarts' = restarts + 1
    /\ pc' = "load"
    /\ retries' = 0
    /\ log' = LoadLog(metadata)
    /\ resp' = NoResponse
    /\ served' = 0
    /\ probes' = 0
    /\ provisions' = 0
    /\ sleeps' = 0
    /\ slept' = 0
    /\ firstOk' = 0
    /\ provFailure' = "none"
    /\ startups' = 0
    /\ raised' = "none"
    /\ UNCHANGED <<store, tables, metadata, created, changes>>
    /\ checkedOut' = 0
    /\ sessions' = [i \in 1..MaxRequests |-> IdleSession]
    /\ lastInsert' = NoInsert
    /\ UNCHANGED <<users, knowledge_bases>>

\* the columns of User that admit no repeated value (primary key, unique=True)
UserUnique == {"id", "username"}

KnowledgeBaseUniqueByName == {"id", "name"}
\* the columns of KnowledgeBase that admit no repeated value
KnowledgeBaseUnique == {"id", "ragflow_kb_id"}

\* INSERT into a table whose unique columns are `unique`
InsertRow(rows, row, unique) ==
    IF \E i \in 1..Len(rows) : \E c \in unique : rows[i][c] = row[c]
    THEN [rows |-> rows, result |-> "IntegrityError"]
    ELSE [rows |-> Append(rows, row), result |-> "ok"]

\* what an insert into table t meets before the constraints are looked at
InsertPrecheck(t) ==
    IF Execute(store) # "ok" THEN Execute(store)
    ELSE IF tables[t] = 0 THEN "ProgrammingError"
    ELSE "ok"

\* a client of the serving process inserts a User row
InsertUser ==
    /\ Accepting
    /\ Len(users) < MaxRows
    /\ \E u \in Usernames :
         LET row == [id |-> Len(users) + 1, username |-> u, hashed_password |-> "x"]
             pre == InsertPrecheck("users")
             ins == InsertRow(users, row, UserUnique)
         IN IF pre # "ok"
            THEN /\ lastInsert' = [table |-> "users", row |-> row, result |-> pre]
                 /\ UNCHANGED users
            ELSE /\ lastInsert' = [table |-> "users", row |-> row, result |-> ins.result]
                 /\ users' = ins.rows
    /\ UNCHANGED <<pc, retries, log, store, tables, metadata, resp, served, probes,
                   provisions, sleeps, slept, firstOk, provFailure, startups, raised,
                   created, knowledge_bases, checkedOut, sessions, changes, restarts>>

\* a client of the serving process inserts a KnowledgeBase row
InsertKnowledgeBase ==
    /\ Accepting
    /\ Len(knowledge_bases) < MaxRows
    /\ \E n \in KbNames, k \in KbIds :
         LET row == [id |-> Len(knowledge_bases) + 1, name |-> n, description |-> "",
                     ragflow_kb_id |-> k]
             pre == InsertPrecheck("knowledge_bases")
             ins == InsertRow(knowledge_bases, row, KnowledgeBaseUnique)
         IN IF pre # "ok"
            THEN /\ lastInsert' = [table |-> "knowledge_bases", row |-> row, result |-> pre]
                 /\ UNCHANGED knowledge_bases
            ELSE /\ lastInsert' = [table |-> "knowledge_bases", row |-> row,
                                   result |-> ins.result]
                 /\ knowledge_bases' = ins.rows
    /\ UNCHANGED <<pc, retries, log, store, tables, metadata, resp, served, probes,
                   provisions, sleeps, slept, firstOk, provFailure, startups, raised,
                   created, users, checkedOut, sessions, changes, restarts>>

\* health_check, step by step, for requests served concurrently by the
\* worker threads.  Line 108: the request arrives and SessionLocal() builds a
\* session; no connection is taken yet.
HealthOpen ==
    /\ Accepting
    /\ served < MaxRequests
    /\ served' = served + 1
    /\ sessions' = [sessions EXCEPT ![served + 1].st = "open"]
    /\ UNCHANGED <<pc, retries, log, store, tables, metadata, resp, probes, provisions,
                   sleeps, slept, firstOk, provFailure, startups, raised, created,
                   rowVars, checkedOut, changes, restarts>>

\* line 109: db.execute takes a connection from the pool and runs the query;
\* when the store cannot be reached no connection is obtained
HealthExecute(i) ==
    /\ sessions[i].st = "open"
    /\ LET r == Execute(store)
           got == r # "OperationalError"
       IN /\ sessions' = [sessions EXCEPT ![i] = [st |-> "executed", holds |-> got, answer |-> r]]
          /\ checkedOut' = IF got THEN checkedOut + 1 ELSE checkedOut
    /\ UNCHANGED <<pc, retries, log, store, tables, metadata, resp, served, probes,
                   provisions, sleeps, slept, firstOk, provFailure, startups, raised,
                   created, rowVars, changes, restarts>>

\* the response health_check gives for the outcome r of its query
HealthResponse(r) ==
    IF r = "ok"
    THEN [route |-> "/health", raised |-> FALSE, body |-> HealthyPayload,
          queries |-> 1, answer |-> r]
    ELSE IF IsInstance(r, HealthExcept)
    THEN [route |-> "/health", raised |-> FALSE, body |-> UnhealthyPayload,
          queries |-> 1, answer |-> r]
    ELSE [route |-> "/health", raised |-> TRUE, body |-> <<>>,
          queries |-> 1, answer |-> r]

HealthCloseLeaky(i) ==
    /\ sessions[i].st = "executed"
    /\ checkedOut' = IF sessions[i].holds /\ sessions[i].answer = "ok"
                     THEN checkedOut - 1 ELSE checkedOut
    /\ sessions' = [sessions EXCEPT ![i] = [st |-> "done", holds |-> FALSE, answer |-> "none"]]
    /\ resp' = HealthResponse(sessions[i].answer)
    /\ log' = IF sessions[i].answer # "ok" /\ IsInstance(sessions[i].answer, HealthExcept)
              THEN Append(log, Line("error", "health_check_failed", 0)) ELSE log
    /\ UNCHANGED <<pc, retries, store, tables, metadata, served, probes,
                   provisions, sleeps, slept, firstOk, provFailure, startups, raised,
                   created, rowVars, changes, restarts>>

\* lines 108-113: the with block is left, normally or by the exception; the
\* session is closed and its connection goes back to the pool; then the
\* handler returns
HealthClose(i) ==
    /\ sessions[i].st = "executed"
    /\ checkedOut' = IF sessions[i].holds THEN checkedOut - 1 ELSE checkedOut
    /\ sessions' = [sessions EXCEPT ![i] = [st |-> "done", holds |-> FALSE, answer |-> "none"]]
    /\ resp' = HealthResponse(sessions[i].answer)
    /\ log' = IF sessions[i].answer # "ok" /\ IsInstance(sessions[i].answer, HealthExcept)
              THEN Append(log, Line("error", "health_check_failed", 0)) ELSE log
    /\ UNCHANGED <<pc, retries, store, tables, metadata, served, probes,
                   provisions, sleeps, slept, firstOk, provFailure, startups, raised,
                   created, rowVars, changes, restarts>>

Next ==
    \/ Begin
    \/ Probe
    \/ Provision
    \/ Finish
    \/ ReadRoot
    \/ HealthCheck
    \/ StoreChange
    \/ Restart

Spec == Init /\ [][Next]_vars

\* the gate followed by inserts into the tables it provisioned
NextRows ==
    \/ Begin
    \/ Probe
    \/ Provision
    \/ Finish
    \/ InsertUser
    \/ InsertKnowledgeBase
    \/ StoreChange

RowSpec == Init /\ [][NextRows]_vars

\* the gate followed by concurrent health_check requests
NextPool ==
    \/ Begin
    \/ Probe
    \/ Provision
    \/ Finish
    \/ HealthOpen
    \/ \E i \in 1..MaxRequests : HealthExecute(i)
    \/ \E i \in 1..MaxRequests : HealthClose(i)
    \/ StoreChange

PoolSpec == Init /\ [][NextPool]_vars

\* ------------------------------------------------------- derived predicates
\* number of log lines of one kind
Count(event) == Cardinality({i \in 1..Len(log) : log[i][2] = event})

\* every registered table exists in the store
Provisioned == \A t \in metadata : tables[t] >= 1

\* how the gate ended: ready when the loop was left by break, degraded when
\* the counter reached the maximum (the test of line 88)
GateState ==
    IF pc # "serving" THEN "starting"
    ELSE IF retries >= max_retries THEN "degraded" ELSE "ready"

\* on_startup has ended, by returning or by raising
Ended == pc \in {"serving", "crashed"}

\* ------------------------------------------------------------------- claims

C2_Exhaustion ==
    (firstOk = 0 /\ raised # "ProgrammingError") =>
        /\ raised = "none"
        /\ pc # "crashed"
        /\ probes <= max_retries
        /\ probes = retries
        /\ Count("retry") = probes
        /\ pc = "loop" /\ probes < max_retries => ENABLED Probe
        /\ pc = "loop" /\ probes = max_retries => ENABLED Finish /\ ~ENABLED Probe
        /\ pc = "serving" =>
              /\ probes = max_retries
              /\ Count("exhausted") = 1
              /\ Count("startup_complete") = 1
              /\ GateState = "degraded"
              /\ served < MaxRequests => ENABLED ReadRoot /\ ENABLED HealthCheck

\* C2 witness: the store never answered and the process serves a request
C2_Witness ==
    /\ pc = "serving"
    /\ firstOk = 0
    /\ probes = max_retries
    /\ Count("exhausted") = 1
    /\ resp.route = "/"

\* a step of this process (not a restart of it)
SameProcess == restarts' = restarts

\* C3 (as stated): after a create_all failure of any class no further probe
\* attempt and no further provisioning attempt is made.
C3_AsStated ==
    [][(provFailure # "none" /\ SameProcess) =>
           (probes' = probes /\ provisions' = provisions)]_vars

\* the step in which create_all raises an exception of class e
ProvisionRaises(e) ==
    /\ pc = "connected"
    /\ provisions' = provisions + 1
    /\ Execute(store) = e

\* C3 (amended): a create_all failure that is not a connectivity/operational
\* error is not retried: it leaves on_startup, and no further probe or
\* provisioning attempt is made. A connectivity/operational error raised by
\* create_all is handled like a failed probe: the counter is incremented, a
\* warning is logged, the gate sleeps, and it probes again while the counter
\* is below 30.
C3_ProvisioningFailure ==
    /\ [][ProvisionRaises("ProgrammingError") =>
             (pc' = "crashed" /\ raised' = "ProgrammingError" /\ UNCHANGED <<retries, log, sleeps>>)]_vars
    /\ [][(pc = "crashed" /\ SameProcess) =>
             UNCHANGED <<pc, probes, provisions, log, retries, tables>>]_vars
    /\ [][ProvisionRaises("OperationalError") =>
             /\ pc' = "loop"
             /\ retries' = retries + 1
             /\ sleeps' = sleeps + 1
             /\ log' = Append(log, Line("warning", "retry", retries + 1))
             /\ UNCHANGED tables]_vars
    /\ [](pc = "loop" /\ retries < max_retries => ENABLED Probe)

\* C3 witness: create_all failed with an operational error and the gate has
\* probed again
C3_Witness ==
    /\ provFailure = "OperationalError"
    /\ probes > firstOk
    /\ firstOk > 0
    /\ pc = "connected"

\* the step in which the probe raises an exception of class e
ProbeRaises(e) ==
    /\ pc = "loop"
    /\ probes' = probes + 1
    /\ Execute(store) = e

\* C4: a probe failure that is not a connectivity/operational error is not
\* caught: it leaves on_startup, no further attempt is made, the counter is
\* not incremented, nothing is logged for it, and startup complete is never
\* logged.
C4_OtherErrorPropagates ==
    /\ [][ProbeRaises("ProgrammingError") =>
             (pc' = "crashed" /\ raised' = "ProgrammingError"
                /\ UNCHANGED <<retries, log, sleeps, provisions>>)]_vars
    /\ [][(pc = "crashed" /\ SameProcess) =>
             UNCHANGED <<pc, probes, provisions, log, retries, sleeps, served, resp>>]_vars
    /\ [](pc = "crashed" => Count("startup_complete") = 0 /\ Count("exhausted") = 0)

\* C4 witness: the probe raised a non-operational error after some retries
C4_Witness ==
    /\ pc = "crashed"
    /\ raised = "ProgrammingError"
    /\ provisions = 0
    /\ retries > 0
    /\ probes = retries + 1

\* C5: /health answers healthy exactly when the liveness query succeeds,
\* unhealthy for every failure, and never raises to the caller.
C5_HealthNeverRaises ==
    resp.route = "/health" =>
        /\ ~resp.raised
        /\ resp.answer = "ok" <=>
              resp.body = <<<<"status", "ok">>, <<"database_connection", "healthy">>>>
        /\ resp.answer # "ok" <=>
              resp.body = <<<<"status", "error">>, <<"database_connection", "unhealthy">>>>

\* C5 witness: the query failed with a non-operational error and the answer
\* was the unhealthy payload
C5_Witness ==
    /\ resp.route = "/health"
    /\ resp.answer = "ProgrammingError"
    /\ resp.body = UnhealthyPayload
    /\ ~resp.raised

\* the step in which create_all returns normally
ProvisionCompletes == pc = "connected" /\ pc' = "after"

\* C6: provisioning is idempotent: against a store where some or all declared
\* tables exist it raises no error and leaves exactly one copy of each
\* declared table; provisioning an already provisioned store changes nothing.
C6_IdempotentProvisioning ==
    /\ [][ProvisionCompletes =>
             /\ \A t \in metadata : tables'[t] = 1
             /\ \A t \in DeclaredTables \ metadata : tables'[t] = tables[t]
             /\ Provisioned => tables' = tables]_vars
    /\ [][(pc = "connected" /\ provisions' = provisions + 1 /\ Execute(store) = "ok") =>
             (ProvisionCompletes /\ raised' = "none")]_vars
    /\ [](\A t \in DeclaredTables : tables[t] <= 1)

\* C6 witness: create_all has completed twice against the same store
C6_Witness ==
    /\ created >= 2
    /\ metadata = DeclaredTables
    /\ pc = "after"
    /\ \A t \in DeclaredTables : tables[t] = 1

\* C7: no request is handled before on_startup has finished, on_startup runs
\* once per process, and no request is handled while the gate is in its loop.
C7_StartupBeforeRequests ==
    /\ [](startups <= 1)
    /\ []((served > 0 \/ resp.route # "none") =>
             (pc = "serving" /\ startups = 1 /\ Count("startup_complete") = 1))
    /\ [][(pc \in {"load", "loop", "connected", "after"}) =>
             (served' = served /\ resp' = resp)]_vars

\* C7 witness: a request was handled after a degraded startup
C7_Witness ==
    /\ served = MaxRequests
    /\ pc = "serving"
    /\ Count("exhausted") = 1
    /\ resp.route = "/health"

\* the step that handles GET /
RootStep == served' = served + 1 /\ resp'.route = "/"

\* C8: GET / returns the literal welcome payload in every serving state and
\* touches neither the store nor the gate.
C8_RootLiteral ==
    /\ [](resp.route = "/" =>
            /\ resp.body = <<<<"message", "Welcome to the Knowledge Base API!">>,
                             <<"status", "running">>>>
            /\ ~resp.raised
            /\ resp.queries = 0)
    /\ [][RootStep =>
            UNCHANGED <<pc, retries, log, store, tables, metadata, probes, provisions,
                        sleeps, firstOk, provFailure, startups, raised, created>>]_vars
    /\ [](pc = "serving" /\ served < MaxRequests => ENABLED ReadRoot)

\* C8 witness: the welcome payload was served in degraded state with the
\* store unreachable
C8_Witness ==
    /\ resp.route = "/"
    /\ GateState = "degraded"
    /\ store = "unreachable"
    /\ resp.body = WelcomePayload

\* the step that handles GET /health
HealthStep == served' = served + 1 /\ resp'.route = "/health"

\* C9: a health_check request runs exactly one liveness query, never retries,
\* and leaves the store, the schema and the gate's outcome unchanged.
C9_HealthFrame ==
    [][HealthStep =>
          /\ resp'.queries = 1
          /\ GateState' = GateState
          /\ UNCHANGED <<pc, retries, store, tables, metadata, probes, provisions,
                         sleeps, created>>]_vars

\* C9 witness: an unhealthy answer after a ready startup
C9_Witness ==
    /\ resp.route = "/health"
    /\ resp.body = UnhealthyPayload
    /\ resp.queries = 1
    /\ GateState = "ready"

\* C10: once startup has completed in degraded mode, the process never
\* probes or provisions again: no request changes the schema, even when the
\* store has become reachable.
C10_NoRecovery ==
    [][(GateState = "degraded" /\ SameProcess) =>
          /\ GateState' = "degraded"
          /\ UNCHANGED <<tables, probes, provisions, created, retries>>]_vars

\* C10 witness: degraded process, store reachable again and reported
\* healthy, schema still missing
C10_Witness ==
    /\ GateState = "degraded"
    /\ store = "reachable"
    /\ resp.route = "/health"
    /\ resp.body = HealthyPayload
    /\ metadata = DeclaredTables
    /\ ~Provisioned

GateEvents ==
    {"startup_begin", "probe_ok", "creating_tables", "tables_created",
     "retry", "exhausted", "startup_complete"}
IsGateLine(l) == l[2] \in GateEvents
GateLog == SelectSeq(log, IsGateLine)

\* number of retry warnings among the first i lines of g
RetriesUpTo(g, i) == Cardinality({j \in 1..i : g[j][2] = "retry"})

\* the parts of the log order that hold whatever create_all does
LogOrderCommon(g) ==
    /\ (pc = "load") <=> (g = <<>>)
    /\ \A i \in 1..Len(g) : (g[i][2] = "startup_begin") <=> (i = 1)
    /\ \A i \in 1..Len(g) : g[i][2] = "retry" => g[i][3] = RetriesUpTo(g, i)
    /\ \A i \in 1..Len(g) : g[i][2] = "exhausted" =>
          /\ RetriesUpTo(g, i) = RetriesUpTo(g, Len(g))
          /\ \A j \in 1..Len(g) : g[j][2] = "exhausted" => j = i
    /\ \A i \in 1..Len(g) : g[i][2] = "startup_complete" => i = Len(g)
    /\ pc = "serving" => g[Len(g)][2] = "startup_complete"

\* C13 (as stated): in every run begin is first, warnings are numbered
\* 1, 2, ..., every success line is followed by schema-creation start and then
\* schema-creation end, exhaustion follows all warnings, and startup complete
\* is the last line of a run that does not raise.
C13_AsStated ==
    LET g == GateLog IN
    /\ LogOrderCommon(g)
    /\ Ended => \A i \in 1..Len(g) : g[i][2] = "probe_ok" =>
          /\ i + 2 <= Len(g)
          /\ g[i + 1][2] = "creating_tables"
          /\ g[i + 2][2] = "tables_created"

\* C13 (amended): as stated, except that a success line is followed by
\* schema-creation start and then by schema-creation end only when create_all
\* returns; when create_all raises a connectivity/operational error the next
\* line is the next retry warning, and when it raises any other error no
\* further line is written.
C13_LogOrder ==
    LET g == GateLog IN
    /\ LogOrderCommon(g)
    /\ \A i \in 1..Len(g) : g[i][2] = "probe_ok" =>
          /\ g[i][3] = RetriesUpTo(g, i) + 1
          /\ i + 1 <= Len(g)
          /\ g[i + 1][2] = "creating_tables"
          /\ i + 2 <= Len(g) => g[i + 2][2] \in {"tables_created", "retry"}
          /\ (i + 2 > Len(g)) => pc \in {"connected", "crashed"}
    /\ \A i \in 1..Len(g) : g[i][2] = "creating_tables" => (i > 1 /\ g[i - 1][2] = "probe_ok")
    /\ \A i \in 1..Len(g) : g[i][2] = "tables_created" =>
          /\ i > 1 /\ g[i - 1][2] = "creating_tables"
          /\ i < Len(g) => g[i + 1][2] = "startup_complete"

\* C13 witness: a run that retried, connected, lost the store during
\* create_all, connected again and completed
C13_Witness ==
    /\ pc = "serving"
    /\ Count("probe_ok") = 2
    /\ Count("tables_created") = 1
    /\ Count("retry") >= 2
    /\ served = 0

\* C14: with the placeholder registry the application starts, provisioning
\* succeeds and creates no table, so the gate is ready without the users and
\* knowledge_bases tables.
C14_PlaceholderRegistry ==
    /\ [][metadata = {} => tables' = tables]_vars
    /\ [][(metadata = {} /\ pc = "connected" /\ provisions' = provisions + 1
             /\ Execute(store) = "ok") => ProvisionCompletes]_vars
    /\ [](metadata = {} =>
            /\ log[1] = Line("warning", "models_not_found", 0)
            /\ pc = "load" => ENABLED Begin)

\* C14 witness: ready gate, empty registry, neither table in the store
C14_Witness ==
    /\ metadata = {}
    /\ GateState = "ready"
    /\ Count("tables_created") = 1
    /\ \A t \in DeclaredTables : tables[t] = 0

\* C15: a run that does not raise ends either provisioned without an
\* exhaustion error, or with the exhaustion error and never provisioned; the
\* error is logged exactly when the counter is 30 at loop exit.
C15_ExclusiveOutcomes ==
    pc = "serving" =>
        LET done == Count("tables_created") >= 1
            exhausted == Count("exhausted") >= 1
        IN /\ done # exhausted
           /\ done => Provisioned /\ Count("tables_created") = 1
           /\ exhausted <=> retries = max_retries
           /\ Count("exhausted") <= 1

\* C15 witness: success on the last permitted attempt, no exhaustion error
C15_Witness ==
    /\ pc = "serving"
    /\ retries = max_retries - 1
    /\ Count("tables_created") = 1
    /\ Count("exhausted") = 0
    /\ served = 1

\* C16: the counter stays within 0..30, changes only by +1 and only in an
\* attempt that failed with a connectivity error, and no probe starts once it
\* is 30.
C16_CounterRange ==
    /\ [](retries \in 0..max_retries)
    /\ [][(retries' # retries /\ SameProcess) =>
             /\ retries' = retries + 1
             /\ ProbeRaises("OperationalError") \/ ProvisionRaises("OperationalError")]_vars
    /\ [][(retries = max_retries /\ SameProcess) => probes' = probes]_vars

\* C16 witness: the counter reached 30 and the loop is about to end
C16_Witness ==
    /\ pc = "loop"
    /\ retries = max_retries
    /\ probes = max_retries

\* C18: the answer of health_check follows the store at the time of the
\* request, whether startup ended ready or degraded.
C18_HealthFollowsStore ==
    [][HealthStep =>
          /\ resp'.answer = Execute(store)
          /\ resp'.body = IF Execute(store) = "ok" THEN HealthyPayload ELSE UnhealthyPayload
          /\ GateState \in {"ready", "degraded"}]_vars

\* C18 witness: healthy answer after a degraded startup
C18_Witness ==
    /\ GateState = "degraded"
    /\ firstOk = 0
    /\ store = "reachable"
    /\ resp.route = "/health"
    /\ resp.answer = "ok"
    /\ served = 1

\* the step that attempts an insert of row r into table t
InsertStep(t) == lastInsert' # lastInsert /\ lastInsert'.table = t

\* C11: in a provisioned store an insert of a User with an existing username,
\* or of a KnowledgeBase with an existing ragflow_kb_id, is rejected, so
\* usernames and ragflow_kb_ids stay pairwise distinct.
C11_UniqueColumns ==
    /\ [](\A i, j \in 1..Len(users) :
            users[i].username = users[j].username => i = j)
    /\ [](\A i, j \in 1..Len(knowledge_bases) :
            knowledge_bases[i].ragflow_kb_id = knowledge_bases[j].ragflow_kb_id => i = j)
    /\ [][(InsertStep("users")
             /\ \E i \in 1..Len(users) : users[i].username = lastInsert'.row.username) =>
            (users' = users /\ lastInsert'.result # "ok")]_vars
    /\ [][(InsertStep("knowledge_bases")
             /\ \E i \in 1..Len(knowledge_bases) :
                   knowledge_bases[i].ragflow_kb_id = lastInsert'.row.ragflow_kb_id) =>
            (knowledge_bases' = knowledge_bases /\ lastInsert'.result # "ok")]_vars
    /\ [][(InsertStep("users") /\ lastInsert'.result = "ok") =>
            (tables["users"] >= 1 /\ users' = Append(users, lastInsert'.row))]_vars
    /\ [][(InsertStep("knowledge_bases") /\ lastInsert'.result = "ok") =>
            (tables["knowledge_bases"] >= 1
               /\ knowledge_bases' = Append(knowledge_bases, lastInsert'.row))]_vars

\* C11 witness: a KnowledgeBase with a new name but an existing ragflow_kb_id
\* was rejected, and two users with distinct names are stored
C11_Witness ==
    /\ lastInsert.table = "knowledge_bases"
    /\ lastInsert.result = "IntegrityError"
    /\ Len(knowledge_bases) = 1
    /\ knowledge_bases[1].ragflow_kb_id = lastInsert.row.ragflow_kb_id
    /\ knowledge_bases[1].name # lastInsert.row.name
    /\ Len(users) = 2
    /\ Provisioned /\ metadata = DeclaredTables

\* health_check requests that hold a connection
Holding == {i \in 1..MaxRequests : sessions[i].holds}

\* no probe attempt and no request is under way
Quiescent ==
    /\ pc # "connected"
    /\ \A i \in 1..MaxRequests : sessions[i].st \in {"idle", "done"}

\* C17: every connection taken by the gate's probe or by a health_check
\* request is released when the attempt or request ends, on success and on
\* failure; once all concurrent requests are complete none is checked out.
C17_ConnectionsReleased ==
    /\ checkedOut = (IF pc = "connected" THEN 1 ELSE 0) + Cardinality(Holding)
    /\ Quiescent => checkedOut = 0
    /\ \A i \in 1..MaxRequests : sessions[i].st = "done" => ~sessions[i].holds

\* C17 witness: all requests are complete, one of them after its query
\* failed on a connection it held, and the pool is whole
C17_Witness ==
    /\ pc = "serving"
    /\ \A i \in 1..MaxRequests : sessions[i].st = "done"
    /\ Count("health_check_failed") >= 1
    /\ resp.answer = "ProgrammingError"
    /\ checkedOut = 0

====
